---- MODULE Spec2Model ----
(***************************************************************************)
(* The chunk ingest route of keiran.cc: POST /api/upload-chunk             *)
(* (src/src/app/api/upload-chunk/route.ts), run by several concurrent      *)
(* requests against one file system.                                       *)
(*                                                                         *)
(* Representation.  A JavaScript string is a sequence of one-character     *)
(* strings ("01" is <<"0", "1">>), so that parseInt, the template literal  *)
(* `chunk-${chunkIndex}` and path.join are computed character by           *)
(* character.  A normalised absolute path is the sequence of its segments. *)
(* A file's content is a sequence of blocks; one block is what one         *)
(* write(2) call of fs.writeFile transfers.                                *)
(***************************************************************************)
EXTENDS Integers, Sequences, FiniteSets, TLC

\* Number of chunk requests the server receives in one behaviour.
MaxRequests == 2

\* The expiry TTL of an upload, in ticks of the clock.
TTL == 1

\* Number of handleUpload calls the model lets run at the same time.
MaxCalls == 2

\* Number of setTimeout callbacks the model lets be pending.
MaxTimers == 2

Requests == 1..MaxRequests

\* file-upload.tsx:12, the only size ceiling the repository states.
MAX_FILE_SIZE == 1024 * 1024 * 1024

\* Size in bytes of one block of a payload (the unit of the model's payloads).
BlockSize == MAX_FILE_SIZE \div 2

-----------------------------------------------------------------------------
(* parseInt(string), radix undefined (route.ts:17) *)

NaN == [nan |-> TRUE, val |-> 0]

Num(n) == [nan |-> FALSE, val |-> n]

isNaN(x) == x.nan

WhiteSpace == {" ", "\t", "\n", "\r"}

\* The value of a character as a digit; 99 for a character that is no digit.
DigitValue(c) ==
  CASE c = "0" -> 0 [] c = "1" -> 1 [] c = "2" -> 2 [] c = "3" -> 3
    [] c = "4" -> 4 [] c = "5" -> 5 [] c = "6" -> 6 [] c = "7" -> 7
    [] c = "8" -> 8 [] c = "9" -> 9
    [] c \in {"a", "A"} -> 10 [] c \in {"b", "B"} -> 11
    [] c \in {"c", "C"} -> 12 [] c \in {"d", "D"} -> 13
    [] c \in {"e", "E"} -> 14 [] c \in {"f", "F"} -> 15
    [] OTHER -> 99

RECURSIVE TrimStart(_)
TrimStart(s) ==
  IF s /= <<>> /\ Head(s) \in WhiteSpace THEN TrimStart(Tail(s)) ELSE s

\* The longest prefix of s made of digits of radix R.
RECURSIVE DigitPrefix(_, _)
DigitPrefix(s, R) ==
  IF s = <<>> \/ DigitValue(Head(s)) >= R
  THEN <<>>
  ELSE <<Head(s)>> \o DigitPrefix(Tail(s), R)

RECURSIVE DigitsToNumber(_, _, _)
DigitsToNumber(s, R, acc) ==
  IF s = <<>> THEN acc
  ELSE DigitsToNumber(Tail(s), R, acc * R + DigitValue(Head(s)))

parseInt(string) ==
  LET S    == TrimStart(string)
      neg  == S /= <<>> /\ Head(S) = "-"
      S1   == IF S /= <<>> /\ Head(S) \in {"+", "-"} THEN Tail(S) ELSE S
      hex  == Len(S1) >= 2 /\ S1[1] = "0" /\ S1[2] \in {"x", "X"}
      R    == IF hex THEN 16 ELSE 10
      S2   == IF hex THEN SubSeq(S1, 3, Len(S1)) ELSE S1
      Z    == DigitPrefix(S2, R)
  IN  IF Z = <<>> THEN NaN
      ELSE Num((IF neg THEN -1 ELSE 1) * DigitsToNumber(Z, R, 0))

-----------------------------------------------------------------------------
(* path.join (POSIX), route.ts:22 and route.ts:25 *)

\* string.split(sep): the segments of s between occurrences of sep.
RECURSIVE Split(_, _)
Split(s, sep) ==
  IF s = <<>> THEN << <<>> >>
  ELSE LET rest == Split(Tail(s), sep)
       IN  IF Head(s) = sep
           THEN << <<>> >> \o rest
           ELSE << <<Head(s)>> \o Head(rest) >> \o Tail(rest)

\* path.normalize of an absolute path: empty and "." segments vanish, ".."
\* removes the segment before it and is dropped at the root.
RECURSIVE Normalize(_, _)
Normalize(stack, segs) ==
  IF segs = <<>> THEN stack
  ELSE LET s == Head(segs)
       IN  IF s = <<>> \/ s = <<".">>
           THEN Normalize(stack, Tail(segs))
           ELSE IF s = <<".", ".">>
           THEN Normalize(IF stack = <<>> THEN <<>>
                          ELSE SubSeq(stack, 1, Len(stack) - 1), Tail(segs))
           ELSE Normalize(Append(stack, s), Tail(segs))

\* path.join(base, name) for a normalised absolute base.
pathJoin(base, name) == Normalize(base, Split(name, "/"))

\* process.cwd(): the directory the server runs in.
Cwd == << <<"a", "p", "p">> >>

PublicDir == Append(Cwd, <<"p", "u", "b", "l", "i", "c">>)

\* path.join(process.cwd(), 'public', 'uploads', 'chunks')
ChunksRoot ==
  PublicDir \o << <<"u", "p", "l", "o", "a", "d", "s">>,
                  <<"c", "h", "u", "n", "k", "s">> >>

\* route.ts:22
UploadDirOf(filename) == pathJoin(ChunksRoot, filename)

\* route.ts:25, `chunk-${chunkIndex}` joined to the upload directory
ChunkPathOf(filename, chunkIndex) ==
  pathJoin(UploadDirOf(filename), <<"c", "h", "u", "n", "k", "-">> \o chunkIndex)

\* Every directory on the way to p, p included.
Prefixes(p) == {SubSeq(p, 1, n) : n \in 0..Len(p)}

Parent(p) == SubSeq(p, 1, Len(p) - 1)

-----------------------------------------------------------------------------
(* The requests the clients send *)

\* formData.get('file'): absent (null), a text field (a string, not a Blob),
\* or a Blob with its content.
NoFile == [kind |-> "none", data |-> <<>>]

TextField == [kind |-> "text", data |-> <<>>]

Blob(data) == [kind |-> "blob", data |-> data]

PayloadAB == Blob(<<"A", "B">>)

PayloadC == Blob(<<"C">>)

IDX_0 == <<"0">>

IDX_1 == <<"1">>

IDX_TRAVERSAL == <<"1", "/", ".", ".", "/", "c", "h", "u", "n", "k", "-", "0">>

FILE_F == <<"f">>

FILE_G == <<"g">>

FILE_NESTED == <<"f", "/", "c", "h", "u", "n", "k", "-", "0">>

\* '../x': a filename with a '..' segment.
FILE_ESCAPE == <<".", ".", "/", "x">>

\* '1/../../g/chunk-0': a chunk index with path separators and '..' segments.
IDX_ESCAPE ==
  <<"1", "/", ".", ".", "/", ".", ".", "/", "g", "/", "c", "h", "u", "n", "k", "-", "0">>

\* A multipart body the server parses; a missing text field reads as ''
\* (String(formData.get(..) || ''), route.ts:9-11).  client names the logical
\* upload (the file one user is sending) the request belongs to; the route
\* never sees it.
Form(file, chunkIndex, totalChunks, filename, client) ==
  [parsable |-> TRUE, file |-> file, chunkIndex |-> chunkIndex,
   totalChunks |-> totalChunks, filename |-> filename, client |-> client]

\* Well-formed chunk requests of uploads f (sent by two clients) and g.
CoreInputs ==
  {Form(b, i, t, n, c) : b \in {PayloadAB, PayloadC}, i \in {IDX_0, IDX_1},
                         t \in {<<"2">>}, n \in {FILE_F}, c \in {1, 2}}
  \cup {Form(b, i, <<"3">>, FILE_F, 1) : b \in {PayloadAB, PayloadC}, i \in {IDX_0, IDX_1}}
  \cup {Form(b, i, <<"2">>, FILE_G, 1) : b \in {PayloadAB, PayloadC}, i \in {IDX_0, IDX_1}}

\* Chunk indices that are no index of a two-chunk upload, or no plain number.
EdgeInputs ==
  {Form(PayloadC, i, <<"2">>, FILE_F, 1) :
     i \in {<<"0", "1">>, <<"2">>, <<"-", "1">>, <<"1", "a", "b", "c">>, IDX_TRAVERSAL}}
  \cup {Form(PayloadC, IDX_0, t, FILE_F, 1) : t \in {<<"x">>, <<"0">>}}
  \cup {Form(PayloadC, IDX_0, <<"2">>, FILE_NESTED, 2)}
  \cup {Form(PayloadC, IDX_0, <<"2">>, FILE_ESCAPE, 2),
        Form(PayloadC, IDX_ESCAPE, <<"2">>, FILE_F, 1)}

\* Requests with a missing field, a chunk index that is no number, a 'file'
\* that is no Blob, and a body that is no form data at all.
BrokenInputs ==
  { Form(NoFile, IDX_0, <<"2">>, FILE_F, 1),
    Form(PayloadC, <<>>, <<"2">>, FILE_F, 1),
    Form(PayloadC, IDX_0, <<>>, FILE_F, 1),
    Form(PayloadC, IDX_0, <<"2">>, <<>>, 1),
    Form(PayloadC, <<"x">>, <<"2">>, FILE_F, 1),
    Form(TextField, IDX_0, <<"2">>, FILE_F, 1),
    [Form(PayloadC, IDX_0, <<"2">>, FILE_F, 1) EXCEPT !.parsable = FALSE] }

Inputs == CoreInputs \cup EdgeInputs \cup BrokenInputs

NoRequest == Form(NoFile, <<>>, <<>>, <<>>, 0)

-----------------------------------------------------------------------------
(* The responses of POST *)

NoResponse == [status |-> 0, body |-> [text |-> ""]]

\* new NextResponse(text, { status })
TextResponse(text, status) == [status |-> status, body |-> [text |-> text]]

\* NextResponse.json({ success: true, message: `Chunk .. of .. uploaded successfully` })
SuccessResponse(chunkIndex, totalChunks) ==
  [status |-> 200,
   body |-> [success |-> TRUE,
             message |-> <<"Chunk ", chunkIndex, " of ", totalChunks,
                           " uploaded successfully">>]]

-----------------------------------------------------------------------------
(* State *)

VARIABLES
  pc,     \* pc[r]: where request r stands in POST
  req,    \* req[r]: the form data request r carries
  pos,    \* pos[r]: the file offset of the descriptor writeFile holds for r
  resp,   \* resp[r]: the response r has been given
  files,  \* the regular files of the file system: path -> content
  dirs,   \* the directories of the file system
  idleTime  \* ticks of the clock since a chunk request last took a step

server == <<pc, req, pos, resp, files, dirs, idleTime>>

\* The FileUpload component (file-upload.tsx): its React state, the state it
\* sets in its parent, and what it has pending in the browser.
VARIABLES
  file,                  \* useState<File | null>(null)
  uploading,             \* useState(false)
  localUploadedFileUrl,  \* useState<string | null>(null)
  uploadSuccess,         \* useState(false)
  rawUrl,                \* useState<string | null>(null)
  buttonLabel,           \* useState('Upload')
  uploadProgress,        \* useState(0)
  uploadedFileUrl,       \* the parent's state, set through setUploadedFileUrl
  toast,                 \* the title of the last toast, set through setToast
  fetching,              \* handleUpload calls awaiting fetch('/api/upload')
  parsing,               \* handleUpload calls awaiting response.json()
  timers                 \* pending setTimeout(resetUploadState, 1000) callbacks

ui == <<file, uploading, localUploadedFileUrl, uploadSuccess, rawUrl,
        buttonLabel, uploadProgress, uploadedFileUrl, toast, fetching,
        parsing, timers>>

vars == <<server, ui>>

\* A byte range no write has filled (a hole reads as zeros).
Hole == "\\0"

UploadDir(r) == UploadDirOf(req[r].filename)

ChunkPath(r) == ChunkPathOf(req[r].filename, req[r].chunkIndex)

\* null, for a File and for a URL.
NullFile == [name |-> "null", size |-> 0]

NullUrl == "null"

\* The component as first rendered.
UIInit ==
  /\ file = NullFile
  /\ uploading = FALSE
  /\ localUploadedFileUrl = NullUrl
  /\ uploadSuccess = FALSE
  /\ rawUrl = NullUrl
  /\ buttonLabel = "Upload"
  /\ uploadProgress = 0
  /\ uploadedFileUrl = NullUrl
  /\ toast = "none"
  /\ fetching = 0
  /\ parsing = 0
  /\ timers = 0

\* The server starts with its public directory and no upload.
Init ==
  /\ UIInit
  /\ pc = [r \in Requests |-> "idle"]
  /\ req = [r \in Requests |-> NoRequest]
  /\ pos = [r \in Requests |-> 0]
  /\ resp = [r \in Requests |-> NoResponse]
  /\ files = [p \in {} |-> <<>>]
  /\ dirs = Prefixes(PublicDir)
  /\ idleTime = 0

\* A step of a chunk request: the uploads have just been touched.  The
\* component, which posts to /api/upload, has no part in it.
Touch == idleTime' = 0 /\ UNCHANGED ui

\* The route returns: the request is answered and takes no further step.
Return(r, response) ==
  /\ pc' = [pc EXCEPT ![r] = "done"]
  /\ resp' = [resp EXCEPT ![r] = response]

\* catch (error): route.ts:30-33
Catch(r) == Return(r, TextResponse("Chunk upload failed", 500))

\* A request arrives (slots are filled in order) and awaits request.formData().
Receive(r, input) ==
  /\ pc[r] = "idle"
  /\ IF r = 1 THEN TRUE ELSE pc[r - 1] /= "idle"
  /\ req' = [req EXCEPT ![r] = input]
  /\ pc' = [pc EXCEPT ![r] = "formData"]
  /\ UNCHANGED <<pos, resp, files, dirs>>
  /\ Touch

\* route.ts:13, !chunk || !chunkIndex || !totalChunks || !filename
MissingFormData(q) ==
  \/ q.file.kind = "none"
  \/ q.chunkIndex = <<>>
  \/ q.totalChunks = <<>>
  \/ q.filename = <<>>

\* route.ts:6-23: the form is read and validated, and fs.mkdir is started.
ParseForm(r) ==
  /\ pc[r] = "formData"
  /\ LET q == req[r]
     IN  IF ~q.parsable
         THEN Catch(r)
         ELSE IF MissingFormData(q)
         THEN Return(r, TextResponse("Missing required form data", 400))
         ELSE IF isNaN(parseInt(q.chunkIndex))
         THEN Return(r, TextResponse("Invalid chunk index", 400))
         ELSE /\ pc' = [pc EXCEPT ![r] = "mkdir"]
              /\ UNCHANGED resp
  /\ UNCHANGED <<req, pos, files, dirs>>
  /\ Touch

\* route.ts:23-26: fs.mkdir(uploadDir, { recursive: true }) runs; it fails when
\* a regular file stands on the way.  Then chunk.arrayBuffer() is called,
\* which a 'file' that is a string does not have (TypeError).
Mkdir(r) ==
  /\ pc[r] = "mkdir"
  /\ IF \E p \in Prefixes(UploadDir(r)) : p \in DOMAIN files
     THEN Catch(r) /\ UNCHANGED dirs
     ELSE /\ dirs' = dirs \cup Prefixes(UploadDir(r))
          /\ IF req[r].file.kind = "text"
             THEN Catch(r)
             ELSE pc' = [pc EXCEPT ![r] = "open"] /\ UNCHANGED resp
  /\ UNCHANGED <<req, pos, files>>
  /\ Touch

\* fs.mkdir rejects with a storage error (EACCES, ENOSPC, EIO).
MkdirError(r) ==
  /\ pc[r] = "mkdir"
  /\ Catch(r)
  /\ UNCHANGED <<req, pos, files, dirs>>
  /\ Touch

\* route.ts:27, fs.writeFile opens chunkPath with flag 'w'
\* (O_WRONLY | O_CREAT | O_TRUNC): the file is created or emptied.
Open(r) ==
  /\ pc[r] = "open"
  /\ LET p == ChunkPath(r)
     IN  IF p \in dirs \/ Parent(p) \notin dirs
         THEN Catch(r) /\ UNCHANGED <<pos, files>>
         ELSE /\ files' = [x \in DOMAIN files \cup {p} |->
                             IF x = p THEN <<>> ELSE files[x]]
              /\ pos' = [pos EXCEPT ![r] = 0]
              /\ pc' = [pc EXCEPT ![r] = "write"]
              /\ UNCHANGED resp
  /\ UNCHANGED <<req, dirs>>
  /\ Touch

\* The open fails with a storage error; nothing is created.
OpenError(r) ==
  /\ pc[r] = "open"
  /\ Catch(r)
  /\ UNCHANGED <<req, pos, files, dirs>>
  /\ Touch

\* write(2) of block b at offset off: bytes between the end of the file and
\* off become a hole.
WriteAt(content, off, b) ==
  LET padded == IF Len(content) < off
                THEN content \o [i \in 1..(off - Len(content)) |-> Hole]
                ELSE content
  IN  IF off < Len(padded)
      THEN [padded EXCEPT ![off + 1] = b]
      ELSE Append(padded, b)

\* fs.writeFile writes the next block at the descriptor's own offset.
WriteBlock(r) ==
  /\ pc[r] = "write"
  /\ pos[r] < Len(req[r].file.data)
  /\ files' = [files EXCEPT ![ChunkPath(r)] =
                 WriteAt(@, pos[r], req[r].file.data[pos[r] + 1])]
  /\ pos' = [pos EXCEPT ![r] = @ + 1]
  /\ UNCHANGED <<pc, req, resp, dirs>>
  /\ Touch

\* A write fails (ENOSPC, EIO): writeFile rejects and leaves the file as it is.
WriteError(r) ==
  /\ pc[r] = "write"
  /\ pos[r] < Len(req[r].file.data)
  /\ Catch(r)
  /\ UNCHANGED <<req, pos, files, dirs>>
  /\ Touch

\* route.ts:29: every block is written; the route answers with success.
Respond(r) ==
  /\ pc[r] = "write"
  /\ pos[r] = Len(req[r].file.data)
  /\ Return(r, SuccessResponse(req[r].chunkIndex, req[r].totalChunks))
  /\ UNCHANGED <<req, pos, files, dirs>>
  /\ Touch

\* The clock advances by one tick; the model stops counting past the TTL.
Tick ==
  /\ idleTime <= TTL
  /\ idleTime' = idleTime + 1
  /\ UNCHANGED <<pc, req, pos, resp, files, dirs>>
  /\ UNCHANGED ui

Next ==
  \/ \E r \in Requests :
       \/ \E input \in Inputs : Receive(r, input)
       \/ ParseForm(r)
       \/ Mkdir(r)
       \/ MkdirError(r)
       \/ Open(r)
       \/ OpenError(r)
       \/ WriteBlock(r)
       \/ WriteError(r)
       \/ Respond(r)
  \/ Tick

Spec == Init /\ [][Next]_vars

-----------------------------------------------------------------------------
(* The FileUpload component, file-upload.tsx *)

\* The files the user may drop: two that fit and one above MAX_FILE_SIZE.
DroppedFiles ==
  { [name |-> "a.png", size |-> 1],
    [name |-> "b.bin", size |-> MAX_FILE_SIZE],
    [name |-> "big.iso", size |-> MAX_FILE_SIZE + 1] }

\* The bodies /api/upload answers with on success.
UploadResults ==
  { [imageUrl |-> "https://keiran.cc/1", rawUrl |-> "https://keiran.cc/raw/1"],
    [imageUrl |-> "https://keiran.cc/2", rawUrl |-> "https://keiran.cc/raw/2"] }

\* file-upload.tsx:45-55, onDrop of one accepted file
onDrop(selectedFile) ==
  /\ IF selectedFile.size > MAX_FILE_SIZE
     THEN toast' = "File too large" /\ UNCHANGED file
     ELSE file' = selectedFile /\ UNCHANGED toast
  /\ UNCHANGED <<uploading, localUploadedFileUrl, uploadSuccess, rawUrl,
                 buttonLabel, uploadProgress, uploadedFileUrl, fetching,
                 parsing, timers>>
  /\ UNCHANGED server

\* An Upload button that is disabled only while no file is selected.
ButtonDisabledWithoutFile == file = NullFile

\* file-upload.tsx:148, disabled={!file || uploading}
ButtonDisabled == file = NullFile \/ uploading

\* file-upload.tsx:62-76: a click on the enabled Upload button runs
\* handleUpload up to its await fetch(..).
handleUpload ==
  /\ ~ButtonDisabled
  /\ fetching + parsing < MaxCalls
  /\ timers < MaxTimers
  /\ file /= NullFile
  /\ uploading' = TRUE
  /\ uploadProgress' = 0
  /\ fetching' = fetching + 1
  /\ UNCHANGED <<file, localUploadedFileUrl, uploadSuccess, rawUrl,
                 buttonLabel, uploadedFileUrl, toast, parsing, timers>>
  /\ UNCHANGED server

\* file-upload.tsx:92-100, catch and finally
UploadFailed ==
  /\ toast' = "Upload failed"
  /\ uploading' = FALSE
  /\ file' = NullFile
  /\ UNCHANGED <<localUploadedFileUrl, uploadSuccess, rawUrl, buttonLabel,
                 uploadProgress, uploadedFileUrl, timers>>

\* fetch rejects, or resolves with a response that is not ok
\* (file-upload.tsx:73-80).
FetchFails ==
  /\ fetching > 0
  /\ fetching' = fetching - 1
  /\ UploadFailed
  /\ UNCHANGED parsing
  /\ UNCHANGED server

\* fetch resolves with an ok response; the call awaits response.json()
\* (file-upload.tsx:82).
FetchOk ==
  /\ fetching > 0
  /\ fetching' = fetching - 1
  /\ parsing' = parsing + 1
  /\ UNCHANGED <<file, uploading, localUploadedFileUrl, uploadSuccess, rawUrl,
                 buttonLabel, uploadProgress, uploadedFileUrl, toast, timers>>
  /\ UNCHANGED server

\* response.json() rejects: the body is no JSON.
JsonFails ==
  /\ parsing > 0
  /\ parsing' = parsing - 1
  /\ UploadFailed
  /\ UNCHANGED fetching
  /\ UNCHANGED server

\* file-upload.tsx:82-91 and 97-100: the result is shown, the reset is
\* scheduled, and finally leaves the uploading state.
UploadSucceeds(data) ==
  /\ parsing > 0
  /\ parsing' = parsing - 1
  /\ localUploadedFileUrl' = data.imageUrl
  /\ rawUrl' = data.rawUrl
  /\ uploadedFileUrl' = data.imageUrl
  /\ uploadSuccess' = TRUE
  /\ buttonLabel' = "Uploaded"
  /\ timers' = timers + 1
  /\ uploading' = FALSE
  /\ file' = NullFile
  /\ UNCHANGED <<uploadProgress, toast, fetching>>
  /\ UNCHANGED server

\* file-upload.tsx:89-91 and 103-106: a timer fires and runs resetUploadState.
resetUploadState ==
  /\ timers > 0
  /\ timers' = timers - 1
  /\ buttonLabel' = "Upload"
  /\ uploadSuccess' = FALSE
  /\ UNCHANGED <<file, uploading, localUploadedFileUrl, rawUrl, uploadProgress,
                 uploadedFileUrl, toast, fetching, parsing>>
  /\ UNCHANGED server

UINext ==
  \/ \E selectedFile \in DroppedFiles : onDrop(selectedFile)
  \/ handleUpload
  \/ FetchFails
  \/ FetchOk
  \/ JsonFails
  \/ \E data \in UploadResults : UploadSucceeds(data)
  \/ resetUploadState

UISpec == Init /\ [][UINext]_vars

-----------------------------------------------------------------------------
(* Vocabulary of the properties *)

Index(r) == parseInt(req[r].chunkIndex)

Total(r) == parseInt(req[r].totalChunks)

Done(r) == pc[r] = "done"

\* r was answered with success: its chunk was accepted.
Accepted(r) == Done(r) /\ resp[r].status = 200

\* r got past the route's validation and reached the file system.
Touches(r) ==
  /\ pc[r] \notin {"idle", "formData"}
  /\ req[r].parsable
  /\ ~MissingFormData(req[r])
  /\ ~isNaN(Index(r))

\* r holds, or held until its success, an open descriptor on its chunk file.
Opened(r) == pc[r] = "write" \/ Accepted(r)

\* The requests that address the file p.
Touchers(p) == {r \in Requests : Touches(r) /\ ChunkPath(r) = p}

\* A string that is a decimal numeral.
IsNumeral(s) == s /= <<>> /\ \A i \in 1..Len(s) : DigitValue(s[i]) < 10

\* The fields of q are missing or invalid: something is missing, chunkIndex
\* is no non-negative integer, totalChunks is no positive integer, or
\* chunkIndex lies outside [0, totalChunks).
InvalidFields(q) ==
  \/ MissingFormData(q)
  \/ ~IsNumeral(q.chunkIndex)
  \/ ~IsNumeral(q.totalChunks)
  \/ parseInt(q.totalChunks).val < 1
  \/ parseInt(q.chunkIndex).val >= parseInt(q.totalChunks).val

\* r is a chunk request as the protocol means it: every field present and
\* valid.
WellFormed(r) == pc[r] /= "idle" /\ req[r].parsable /\ ~InvalidFields(req[r])

\* r1 and r2 belong to the same upload, as the route and as the clients see it.
SameUpload(r1, r2) ==
  req[r1].filename = req[r2].filename /\ req[r1].client = req[r2].client

\* The accepted requests S are one upload of N chunks, one request per index.
CoversUpload(S, N) ==
  /\ S /= {}
  /\ \A r \in S : WellFormed(r) /\ Accepted(r) /\ Total(r) = Num(N)
  /\ \A r1, r2 \in S : SameUpload(r1, r2)
  /\ \A r1, r2 \in S : Index(r1) = Index(r2) => r1 = r2
  /\ {Index(r).val : r \in S} = 0..(N - 1)

\* The payloads of S in index order i, i+1, .., N-1.
RECURSIVE ConcatChunks(_, _, _)
ConcatChunks(S, i, N) ==
  IF i >= N THEN <<>>
  ELSE req[CHOOSE r \in S : Index(r) = Num(i)].file.data \o ConcatChunks(S, i + 1, N)

\* The response tells its request that the upload is now complete.
ObservesComplete(r) ==
  /\ Done(r)
  /\ "isNowComplete" \in DOMAIN resp[r].body
  /\ resp[r].body.isNowComplete = TRUE

RECURSIVE SumSizes(_)
SumSizes(P) ==
  IF P = {} THEN 0
  ELSE LET p == CHOOSE x \in P : TRUE
       IN  Len(files[p]) * BlockSize + SumSizes(P \ {p})

\* The bytes of the accepted chunks stored directly under directory d: the
\* files there whose every writer was answered with success.
StoredBytes(d) ==
  SumSizes({p \in DOMAIN files :
              /\ Parent(p) = d
              /\ Touchers(p) /= {}
              /\ \A r \in Touchers(p) : Accepted(r)})

-----------------------------------------------------------------------------
(* Properties *)

\* C1: once accepted chunk requests cover all indices 0..N-1 of an upload, a
\* final artifact exists (a file that is none of the upload's chunk files)
\* whose bytes are the chunk payloads concatenated in index order.
C1_FinalArtifact ==
  \A S \in SUBSET Requests : \A N \in 1..MaxRequests :
    CoversUpload(S, N) /\ (\A r \in Requests : pc[r] = "idle" \/ Done(r))
      => \E p \in DOMAIN files :
           /\ p \notin {ChunkPath(r) : r \in S}
           /\ files[p] = ConcatChunks(S, 0, N)

\* C2: when the requests of an upload have all been answered and their
\* accepted chunks cover 0..N-1, exactly one of them has observed
\* isNowComplete = true; and no request observes it while an index is missing.
C2_CompleteOnce ==
  \A S \in SUBSET Requests : \A N \in 1..MaxRequests :
    /\ CoversUpload(S, N) /\ (\A r \in Requests : pc[r] = "idle" \/ Done(r))
         => Cardinality({r \in S : ObservesComplete(r)}) = 1
    /\ (\E r \in S : ObservesComplete(r)) /\ (\A r \in S : Total(r) = Num(N))
         => 0..(N - 1) \subseteq {Index(r).val : r \in {x \in Requests : Opened(x)}}

\* C3: at every moment the content at a chunk key that already holds an
\* accepted chunk is the complete payload of one of the requests that address
\* the key (the old or the new one), never a part or a mixture of payloads.
C3_AtomicOverwrite ==
  \A p \in DOMAIN files :
    /\ \E r \in Touchers(p) : Accepted(r)
    /\ \A r \in Touchers(p) : WellFormed(r)
    => files[p] \in {req[r].file.data : r \in Touchers(p)}

\* C4: after accepted writes of one (upload, chunk index) have all finished,
\* the single stored chunk holds the full payload of one of them.
C4_IdempotentOverwrite ==
  \A r1, r2 \in Requests :
    /\ Accepted(r1) /\ Accepted(r2)
    /\ WellFormed(r1) /\ WellFormed(r2)
    /\ SameUpload(r1, r2)
    /\ req[r1].chunkIndex = req[r2].chunkIndex
    /\ Touchers(ChunkPath(r1)) \subseteq {r1, r2}
    => /\ ChunkPath(r1) \in DOMAIN files
       /\ files[ChunkPath(r1)] \in {req[r1].file.data, req[r2].file.data}

\* C5: a request with a missing or invalid field never reaches the file
\* system, and is answered with HTTP 400.
C5_InvalidRejected ==
  \A r \in Requests :
    pc[r] /= "idle" /\ req[r].parsable /\ InvalidFields(req[r])
      => /\ pc[r] \in {"formData", "done"}
         /\ Done(r) => resp[r].status = 400

\* C6: totalChunks is fixed per upload: no two requests of one upload that
\* declare different totals are both accepted.
C6_TotalChunksFixed ==
  \A r1, r2 \in Requests :
    /\ Accepted(r1) /\ Accepted(r2)
    /\ WellFormed(r1) /\ WellFormed(r2)
    /\ SameUpload(r1, r2)
    => Total(r1) = Total(r2)

\* C7: a request whose storage step failed is answered with HTTP 500 and has
\* left no chunk file behind at a key that no other request addresses.
C7_FailedWriteNotRecorded ==
  \A r \in Requests :
    Touches(r) /\ WellFormed(r) /\ Done(r) /\ ~Accepted(r)
      => /\ resp[r].status = 500
         /\ Touchers(ChunkPath(r)) = {r} => ChunkPath(r) \notin DOMAIN files

\* C8: the accepted chunks stored for one upload never exceed the size
\* ceiling.
C8_SizeCeiling ==
  \A d \in dirs :
    (\A r1, r2 \in Requests :
        Touches(r1) /\ Touches(r2) => WellFormed(r1) /\ SameUpload(r1, r2))
      => StoredBytes(d) <= MAX_FILE_SIZE

\* C9: requests of two logical uploads that supply the same filename never
\* hold the same chunk file.
C9_DisjointStorage ==
  \A r1, r2 \in Requests :
    /\ Opened(r1) /\ Opened(r2)
    /\ WellFormed(r1) /\ WellFormed(r2)
    /\ req[r1].client /= req[r2].client
    /\ req[r1].filename = req[r2].filename
    => ChunkPath(r1) /= ChunkPath(r2)

\* C10: two accepted requests of one upload with distinct chunk indices, with
\* no third request at their keys, leave each chunk holding its own payload.
C10_ParallelDistinctIndices ==
  \A r1, r2 \in Requests :
    /\ Accepted(r1) /\ Accepted(r2)
    /\ SameUpload(r1, r2)
    /\ Index(r1) /= Index(r2)
    /\ Touchers(ChunkPath(r1)) \cup Touchers(ChunkPath(r2)) \subseteq {r1, r2}
    => /\ ChunkPath(r1) \in DOMAIN files /\ ChunkPath(r2) \in DOMAIN files
       /\ files[ChunkPath(r1)] = req[r1].file.data
       /\ files[ChunkPath(r2)] = req[r2].file.data

\* The same for requests whose every field is valid (chunkIndex a plain
\* numeral): what the route does once its inputs are what the protocol means.
ParallelWellFormedIndices ==
  \A r1, r2 \in Requests :
    /\ Accepted(r1) /\ Accepted(r2)
    /\ WellFormed(r1) /\ WellFormed(r2)
    /\ SameUpload(r1, r2)
    /\ Index(r1) /= Index(r2)
    /\ Touchers(ChunkPath(r1)) \cup Touchers(ChunkPath(r2)) \subseteq {r1, r2}
    => /\ ChunkPath(r1) \in DOMAIN files /\ ChunkPath(r2) \in DOMAIN files
       /\ files[ChunkPath(r1)] = req[r1].file.data
       /\ files[ChunkPath(r2)] = req[r2].file.data

\* Chunk files exist although no chunk request has taken a step for longer
\* than the TTL.
Stale == idleTime > TTL /\ DOMAIN files /= {}

\* C11: uploads untouched for longer than the TTL are eventually reclaimed:
\* once every request has been answered and the clock is past the TTL (no
\* step is possible any more), the chunk files have been removed.
C11_ExpiredReclaimed ==
  Stale /\ (\A r \in Requests : WellFormed(r) /\ Accepted(r))
    => DOMAIN files = {}

\* C12: two requests of one upload whose chunkIndex fields denote the same
\* integer address the same stored chunk.
C12_OneChunkPerIndex ==
  \A r1, r2 \in Requests :
    /\ Opened(r1) /\ Opened(r2)
    /\ WellFormed(r1) /\ WellFormed(r2)
    /\ SameUpload(r1, r2)
    /\ Index(r1) = Index(r2)
    => ChunkPath(r1) = ChunkPath(r2)

\* Path p lies inside directory d.
Inside(d, p) == Len(p) > Len(d) /\ SubSeq(p, 1, Len(d)) = d

\* C13: the file a request writes is a direct child of its upload's
\* directory, that directory lies inside the chunks root, and the file lies
\* inside no other upload's directory.
C13_ChunkInsideUploadDir ==
  \A r \in Requests :
    Opened(r)
      => /\ Parent(ChunkPath(r)) = UploadDir(r)
         /\ Inside(ChunksRoot, UploadDir(r))
         /\ \A r2 \in Requests :
              Touches(r2) /\ UploadDir(r2) /= UploadDir(r)
                => ~Inside(UploadDir(r2), ChunkPath(r))

\* The handleUpload calls that have started a request and not yet settled.
InFlight == fetching + parsing

\* C14: at most one upload request is in flight and uploading is true while
\* it is; a request starts only with a file selected and uploading false; and
\* the step that settles it leaves uploading = false and no selected file.
C14_OneUploadInFlight ==
  /\ [](InFlight <= 1 /\ (InFlight > 0 => uploading))
  /\ [][/\ InFlight' > InFlight => file /= NullFile /\ ~uploading
        /\ InFlight' < InFlight => ~uploading' /\ file' = NullFile]_vars

\* A second upload is in flight after a first one has succeeded, and the user
\* has meanwhile dropped another file.
C14_Witness ==
  /\ InFlight = 1
  /\ uploading
  /\ localUploadedFileUrl /= NullUrl
  /\ file.name = "b.bin"

====
